---- MODULE Spec2Model ----
(***************************************************************************)
(* A model of score.serve's forked-worker gateway (src/score/serve/        *)
(* _forked.py) and of the asyncio lifecycle bridge (src/score/serve/       *)
(* worker/asyncio.py).                                                     *)
(*                                                                         *)
(* Four independent machines share the module, one specification each:     *)
(*   LaunchSpec  fork(): the thread precondition and the child's start-up  *)
(*   GwSpec      Gateway calls, the child dispatcher, kill(), cleanup()    *)
(*   RegSpec     Gateway.on / Gateway.off and the dispatch of events       *)
(*   WkSpec      AsyncioWorker: control thread against loop thread         *)
(* GwFairSpec and WkFairSpec add the fairness the schedulers give.         *)
(***************************************************************************)
EXTENDS Naturals, Integers, Sequences, FiniteSets, TLC

VARIABLES
    \* ---- fork() -------------------------------------------------------
    active_count,       \* threading.active_count() when fork() is called
    start_method,       \* multiprocessing's configured start method
    default_start_method, \* multiprocessing.get_all_start_methods()[0]
    inherited_running,  \* the loop the child inherits is_running()
    launch,             \* "init" | "raised" | "forked": fork()'s outcome
    child,              \* the child process: "none" | "forked" |
                        \* "constructed" | "loop_ready" | "reader_added" |
                        \* "running" | "stopping" | "exited"
    child_new_loop,     \* the child built a fresh loop (lines 69-71)
    \* ---- Gateway and child dispatcher --------------------------------
    childpid,           \* Gateway.childpid: "pid" or None
    last_command_id,    \* Gateway.last_command_id
    responses,          \* Gateway.responses: id -> [success, payload]
    event_set,          \* Gateway.event: the asyncio.Event's flag
    call,               \* the parent's calls: caller -> [pc, function, id,
                        \* result]
    to_child,           \* commands in the pipe, parent to child
    to_parent,          \* messages in the pipe, child to parent
    tasks,              \* the child's pending coroutine tasks
    handled,            \* history: ids of the commands the dispatcher read
    answers,            \* history: id -> responses the child sent for it
    reader,             \* the parent's loop watches the pipe (line 120)
    cleanups,           \* history: the number of Gateway.cleanup() calls
    signals,            \* history: the number of SIGTERMs sent (line 172)
    \* ---- Gateway.on / Gateway.off ------------------------------------
    callbacks,          \* Gateway.callbacks: event -> list of callbacks
    reg_last,           \* history: the last on/off call and its outcome
    dispatch,           \* _message_received's loop over an event's list:
                        \* [pc, event, args, idx, attached]
    subscribed,         \* history: the event's list when it was received
    invoked,            \* history: the callbacks the dispatch has invoked
    \* ---- AsyncioWorker -----------------------------------------------
    state,              \* the worker's lifecycle state (Worker base class)
    ctl,                \* the control thread: [op, pc]
    result,             \* history: op -> how the last call of op ended
    loop,               \* the loop thread: "none" | "starting" | "created"
                        \* | "running" | "stopping" | "exited"
    ready,              \* the loop's queue of handles (loop._ready)
    ntodo,              \* handles left in the loop's current iteration
    fut,                \* op -> the call's concurrent future
    cb,                 \* op -> the future's done callback is registered
    evt,                \* op -> the call's threading.Event is set
    htask,              \* op -> the task that runs the op's coroutine
    hook,               \* op -> the hook's own computation
    bg,                 \* background tasks on the private loop
    watch,              \* task -> the stop closures attached to it
    snapshot            \* history: tasks pending when _stop finished

forkVars == << active_count, start_method, default_start_method,
               inherited_running, launch, child_new_loop >>
gwVars == << childpid, last_command_id, responses, event_set, call,
             to_child, to_parent, tasks, handled, answers >>
sigVars == << reader, cleanups, signals >>
regVars == << callbacks, reg_last >>
evVars == << dispatch, subscribed, invoked >>
wkVars == << state, ctl, result, loop, ready, ntodo, fut, cb, evt, htask,
             hook, bg, watch, snapshot >>
vars == << forkVars, child, gwVars, sigVars, regVars, evVars, wkVars >>

None == "None"

\* ---------------------------------------------------------------------
\* Bounds
\* ---------------------------------------------------------------------
MaxThreads == 2

StartMethods == {None, "fork", "spawn", "forkserver"}
DefaultMethods == {"fork", "spawn"}

\* ---------------------------------------------------------------------
\* fork(): lines 46-74 of _forked.py
\* ---------------------------------------------------------------------

\* lines 48-60: what the thread check does to the start method, and
\* whether it raises.  It decides nothing else: line 61 follows whenever
\* it does not raise.
ThreadCheck(threads, method, default) ==
    IF threads > 1
    THEN IF method = None
         THEN [raises |-> FALSE,
               method |-> IF default = "fork" THEN "spawn" ELSE method]
         ELSE IF method = "fork"
              THEN [raises |-> TRUE, method |-> method]
              ELSE [raises |-> FALSE, method |-> method]
    ELSE [raises |-> FALSE, method |-> method]

LaunchInit ==
    /\ active_count \in 1..MaxThreads
    /\ start_method \in StartMethods
    /\ default_start_method \in DefaultMethods
    /\ inherited_running \in BOOLEAN
    /\ launch = "init"
    /\ child = "none"
    /\ child_new_loop = FALSE
    /\ childpid = None

\* fork(), the parent's path: lines 47-63.  os.fork() at line 61 is the
\* only process creation in the function.
Fork ==
    /\ launch = "init"
    /\ LET c == ThreadCheck(active_count, start_method, default_start_method)
       IN  /\ start_method' = c.method
           /\ IF c.raises
              THEN /\ launch' = "raised"
                   /\ child' = child
                   /\ childpid' = childpid
              ELSE \* line 61 os.fork(), line 63 Gateway(.., childpid, ..)
                   /\ launch' = "forked"
                   /\ child' = "forked"
                   /\ childpid' = "pid"
    /\ UNCHANGED << active_count, default_start_method, inherited_running,
                    child_new_loop >>
    /\ UNCHANGED << last_command_id, responses, event_set, call, to_child,
                    to_parent, tasks, handled, answers >>
    /\ UNCHANGED << sigVars, regVars, evVars, wkVars >>

\* lines 64-66: SIGINT ignored, the object constructed, the pipe attached.
ChildConstruct ==
    /\ child = "forked"
    /\ child' = "constructed"
    /\ UNCHANGED << active_count, start_method, default_start_method,
                    inherited_running, launch, child_new_loop >>
    /\ UNCHANGED << gwVars, sigVars, regVars, evVars, wkVars >>

\* lines 67-71: an inherited running loop is stopped and replaced.
ChildLoop ==
    /\ child = "constructed"
    /\ child' = "loop_ready"
    /\ child_new_loop' = inherited_running
    /\ UNCHANGED << active_count, start_method, default_start_method,
                    inherited_running, launch >>
    /\ UNCHANGED << gwVars, sigVars, regVars, evVars, wkVars >>

\* line 72: the dispatcher becomes the pipe's reader.
ChildAddReader ==
    /\ child = "loop_ready"
    /\ child' = "reader_added"
    /\ UNCHANGED << active_count, start_method, default_start_method,
                    inherited_running, launch, child_new_loop >>
    /\ UNCHANGED << gwVars, sigVars, regVars, evVars, wkVars >>

\* line 73: run_forever() begins.
ChildRun ==
    /\ child = "reader_added"
    /\ child' = "running"
    /\ UNCHANGED << active_count, start_method, default_start_method,
                    inherited_running, launch, child_new_loop >>
    /\ UNCHANGED << gwVars, sigVars, regVars, evVars, wkVars >>

LaunchNext ==
    \/ Fork
    \/ ChildConstruct
    \/ ChildLoop
    \/ ChildAddReader
    \/ ChildRun

\* ---------------------------------------------------------------------
\* The Gateway and the child dispatcher: _forked.py lines 77-201
\* ---------------------------------------------------------------------
NCallers == 2
MaxCleanups == 2

Callers == 1..NCallers

\* The wrapped object's remote surface: ping returns its argument, boom
\* raises, slow and slowboom return coroutines, missing is no attribute of
\* the object, kill is Backgrounded.kill; _get_attribute is the reserved
\* attribute read.
Functions == {"ping", "boom", "slow", "slowboom", "missing",
              "_get_attribute", "kill"}

\* The argument caller c passes: its own number, so that every call's
\* payload differs from every other call's.
Arg(c) == c

\* Values and exceptions crossing the pipe: a tag (a value's kind, an
\* exception's type) and a number (the value, the exception's message).
NoneValue == << "None", 0 >>

\* How a call ended: it returned a value or raised an exception.
NoResult == [kind |-> "none", value |-> NoneValue]
Returned(v) == [kind |-> "returned", value |-> v]
Raised(e) == [kind |-> "raised", value |-> e]

IdleCall ==
    [pc |-> "idle", function |-> None, id |-> 0, result |-> NoResult]

\* What invoking the named member of the wrapped object yields (lines
\* 88-91): a final value, a synchronous exception, or a coroutine.
Invoke(function, arg) ==
    CASE function = "ping" -> [kind |-> "value", value |-> << "int", arg >>]
      [] function = "_get_attribute" ->
             [kind |-> "value", value |-> << "attr", arg >>]
      [] function = "kill" -> [kind |-> "value", value |-> NoneValue]
      [] function = "boom" ->
             [kind |-> "raise", value |-> << "ValueError", arg >>]
      [] function = "missing" ->
             [kind |-> "raise", value |-> << "AttributeError", arg >>]
      [] OTHER -> [kind |-> "coroutine", value |-> NoneValue]

\* What a coroutine the object returned completes with.
Await(function, arg) ==
    IF function = "slow"
    THEN [kind |-> "value", value |-> << "int", arg >>]
    ELSE [kind |-> "raise", value |-> << "RuntimeError", arg >>]

\* A signal that wakes one waiter only, as a semaphore or notify() would.
EventSet_WakeOne(calls) ==
    LET waiting == {c \in Callers : calls[c].pc = "waiting"}
    IN  IF event_set \/ waiting = {}
        THEN calls
        ELSE LET w == CHOOSE c \in waiting : \A d \in waiting : c <= d
             IN  [calls EXCEPT ![w].pc = "woken"]

\* asyncio.Event.set() as _message_received calls it (line 154): the flag
\* goes up and every waiter is woken, unless the flag is up already.
EventSet(calls) ==
    IF event_set
    THEN calls
    ELSE [c \in Callers |->
             IF calls[c].pc = "waiting"
             THEN [calls[c] EXCEPT !.pc = "woken"]
             ELSE calls[c]]

\* os.waitpid() at line 166 blocks the parent's loop thread: nothing else
\* of the parent runs until the child has exited.
ParentFree == \A c \in Callers : call[c].pc # "waitpid"

\* The Gateway as __init__ leaves it (lines 113-126), childpid aside.
GatewayNew ==
    /\ last_command_id = 0
    /\ responses = << >>
    /\ event_set = FALSE
    /\ call = [c \in Callers |-> IdleCall]
    /\ to_child = << >>
    /\ to_parent = << >>
    /\ tasks = {}
    /\ handled = {}
    /\ answers = << >>
    /\ reader = TRUE
    /\ cleanups = 0
    /\ signals = 0

\* After fork() from a single-threaded parent inside its running loop: the
\* child runs its own fresh loop, the parent holds the Gateway.
GwInit ==
    /\ active_count = 1
    /\ start_method = None
    /\ default_start_method = "fork"
    /\ inherited_running = TRUE
    /\ launch = "forked"
    /\ child = "running"
    /\ child_new_loop = TRUE
    /\ childpid = "pid"
    /\ GatewayNew

\* What a call does once its response is there (lines 197-201), and for
\* kill() what follows _send_command (lines 162-167).
Complete(c, r) ==
    IF ~r.success
    THEN [call[c] EXCEPT !.pc = "done", !.result = Raised(r.payload[2])]
    ELSE IF call[c].function = "kill"
         THEN IF childpid = None
              THEN [call[c] EXCEPT !.pc = "done", !.result = Returned(NoneValue)]
              ELSE [call[c] EXCEPT !.pc = "waitpid"]
         ELSE [call[c] EXCEPT !.pc = "done", !.result = Returned(r.payload)]

\* A waiter that takes whichever response has arrived first.
OwnResponse_First(c, id) ==
    IF DOMAIN responses = {}
    THEN id
    ELSE CHOOSE k \in DOMAIN responses : \A j \in DOMAIN responses : k <= j

\* The response a waiter looks up: the one stored under its own id (lines
\* 196-197).
OwnResponse(c, id) == id

\* A counter that stays where it is once it has left 0.
NextId_Reuse(last) == IF last = 0 THEN 1 ELSE last

\* lines 190-191: command_id = last_command_id + 1, and last_command_id
\* becomes that.
NextId(last) == last + 1

\* A Gateway that swallows the broken pipe of every command.
Suppressed_All(f) == TRUE

\* kill(), lines 160-163: the try around _send_command('kill') is the only
\* handler of BrokenPipeError.
Suppressed(f) == f = "kill"

\* A kill() that never takes the handle for cleared.
NoChild_Never(pid) == FALSE

\* kill(), line 158 (and line 164): `not self.childpid`.
NoChild(pid) == pid = None

\* _send_command up to its first suspension (lines 190-196), for a proxy
\* call (lines 180, 184) and for kill() (lines 158-163).
Call(c, f) ==
    /\ ParentFree
    /\ call[c].pc = "idle"
    /\ IF f = "kill" /\ NoChild(childpid)
       THEN \* line 158-159: no child handle, nothing to do
            /\ call' = [call EXCEPT ![c] =
                   [pc |-> "done", function |-> f, id |-> 0,
                    result |-> Returned(NoneValue)]]
            /\ UNCHANGED << last_command_id, to_child, event_set >>
       ELSE LET id == NextId(last_command_id)
            IN  /\ last_command_id' = id
                /\ IF child = "exited"
                   THEN \* pipe.send raises BrokenPipeError (line 192)
                        /\ to_child' = to_child
                        /\ event_set' = event_set
                        /\ call' = [call EXCEPT ![c] =
                              IF Suppressed(f)
                              THEN [pc |-> "waitpid", function |-> f,
                                    id |-> id, result |-> NoResult]
                              ELSE [pc |-> "done", function |-> f, id |-> id,
                                    result |->
                                        Raised(<< "BrokenPipeError", 0 >>)]]
                   ELSE /\ to_child' = Append(to_child,
                              [id |-> id, function |-> f, arg |-> Arg(c)])
                        \* event.wait() returns at once when the flag is up;
                        \* the call clears it, finds no response under its
                        \* new id and waits again
                        /\ event_set' = FALSE
                        /\ call' = [call EXCEPT ![c] =
                              [pc |-> "waiting", function |-> f, id |-> id,
                               result |-> NoResult]]
    /\ UNCHANGED << childpid, responses, to_parent, tasks, handled, answers >>
    /\ UNCHANGED << forkVars, child, sigVars, regVars, evVars, wkVars >>

\* A woken waiter runs: clear, recheck, leave or wait again (lines
\* 194-201).
Resume(c) ==
    /\ ParentFree
    /\ call[c].pc = "woken"
    /\ event_set' = FALSE
    /\ LET k == OwnResponse(c, call[c].id)
       IN  IF k \in DOMAIN responses
           THEN call' = [call EXCEPT ![c] = Complete(c, responses[k])]
           ELSE call' = [call EXCEPT ![c].pc = "waiting"]
    /\ UNCHANGED << childpid, last_command_id, responses, to_child,
                    to_parent, tasks, handled, answers >>
    /\ UNCHANGED << forkVars, child, sigVars, regVars, evVars, wkVars >>

\* kill(), lines 166-167: the wait for the child's exit, then the handle
\* is cleared.
Waitpid(c) ==
    /\ call[c].pc = "waitpid"
    /\ child = "exited"
    /\ childpid' = None
    /\ call' = [call EXCEPT ![c].pc = "done", ![c].result = Returned(NoneValue)]
    /\ UNCHANGED << last_command_id, responses, event_set, to_child,
                    to_parent, tasks, handled, answers >>
    /\ UNCHANGED << forkVars, child, sigVars, regVars, evVars, wkVars >>

\* _message_received, a response (lines 138-142, 151-154).
MessageReceived ==
    /\ ParentFree
    /\ reader
    /\ to_parent # << >>
    /\ LET m == Head(to_parent)
       IN  /\ to_parent' = Tail(to_parent)
           /\ responses' =
                  [k \in DOMAIN responses \cup {m.id} |->
                      IF k = m.id
                      THEN [success |-> m.success, payload |-> m.payload]
                      ELSE responses[k]]
           /\ call' = EventSet(call)
           /\ event_set' = TRUE
    /\ UNCHANGED << childpid, last_command_id, to_child, tasks, handled,
                    answers >>
    /\ UNCHANGED << forkVars, child, sigVars, regVars, evVars, wkVars >>

Answered(id) ==
    [k \in DOMAIN answers \cup {id} |->
        IF k \in DOMAIN answers
        THEN (IF k = id THEN answers[k] + 1 ELSE answers[k])
        ELSE 1]

\* The failure payload of line 98: sys.exc_info(), (type, value, trace).
ExcInfo(e) == << e[1], e, "traceback" >>

\* A dispatcher that lets the exception escape: nothing is sent.
OnException_Escape(id, e) == << >>

\* What the dispatcher does with a synchronous exception (lines 97-98).
OnException(id, e) ==
    << [id |-> id, success |-> FALSE, payload |-> ExcInfo(e)] >>

\* _handle_call (lines 84-98): one command is read and dispatched.
HandleCall ==
    /\ child = "running"
    /\ to_child # << >>
    /\ LET cmd == Head(to_child)
           r == Invoke(cmd.function, cmd.arg)
           out == CASE r.kind = "coroutine" -> << >>
                    [] r.kind = "raise" -> OnException(cmd.id, r.value)
                    [] OTHER -> << [id |-> cmd.id, success |-> TRUE,
                                    payload |-> r.value] >>
       IN  /\ to_child' = Tail(to_child)
           /\ handled' = handled \cup {cmd.id}
           /\ tasks' = IF r.kind = "coroutine"
                       THEN tasks \cup {[id |-> cmd.id,
                                         function |-> cmd.function,
                                         arg |-> cmd.arg]}
                       ELSE tasks
           /\ to_parent' = to_parent \o out
           /\ answers' = IF out = << >> THEN answers ELSE Answered(cmd.id)
           \* Backgrounded.kill (lines 106-108): loop.stop()
           /\ child' = IF cmd.function = "kill" THEN "stopping" ELSE child
    /\ UNCHANGED << childpid, last_command_id, responses, event_set, call >>
    /\ UNCHANGED << forkVars, sigVars, regVars, evVars, wkVars >>

\* A completion callback that answers with something other than the
\* command's id.
DoneId_Builtin(t) == 0

\* The id the completion callback answers with: the id of the enclosing
\* _handle_call (lines 78-85; `id` is that function's local).
DoneId(t) == t.id

\* done(future) (lines 78-83): a coroutine task of the child completed.
TaskDone(t) ==
    /\ child = "running"
    /\ t \in tasks
    /\ LET r == Await(t.function, t.arg)
           payload == IF r.kind = "value" THEN r.value ELSE ExcInfo(r.value)
       IN  /\ to_parent' = Append(to_parent,
                  [id |-> DoneId(t), success |-> r.kind = "value",
                   payload |-> payload])
           /\ answers' = Answered(DoneId(t))
    /\ tasks' = tasks \ {t}
    /\ UNCHANGED << childpid, last_command_id, responses, event_set, call,
                    to_child, handled >>
    /\ UNCHANGED << forkVars, child, sigVars, regVars, evVars, wkVars >>

\* fork(), lines 73-74: run_forever() returned, the process exits.  What
\* it had not yet read or finished is gone with it.
ChildExit ==
    /\ child = "stopping"
    /\ child' = "exited"
    /\ to_child' = << >>
    /\ tasks' = {}
    /\ UNCHANGED << childpid, last_command_id, responses, event_set, call,
                    to_parent, handled, answers >>
    /\ UNCHANGED << forkVars, sigVars, regVars, evVars, wkVars >>

\* A cleanup() that signals whatever the handle says.
Signalled_Always(pid) == TRUE

\* cleanup(), line 171: `if self.childpid`.
Signalled(pid) == pid # None

\* Gateway.cleanup() (lines 169-172): the pipe is no longer watched and
\* the child, if the handle is set, is sent SIGTERM.  Nothing is waited
\* for, the handle stays.
Cleanup ==
    /\ ParentFree
    /\ cleanups < MaxCleanups
    /\ cleanups' = cleanups + 1
    /\ reader' = FALSE
    /\ signals' = IF Signalled(childpid) THEN signals + 1 ELSE signals
    /\ UNCHANGED << forkVars, child, gwVars, regVars, evVars, wkVars >>

\* SIGTERM reaches the child (line 64 ignores SIGINT only): the process
\* ends wherever it is.
ChildTerminate ==
    /\ signals > 0
    /\ child # "exited"
    /\ child' = "exited"
    /\ to_child' = << >>
    /\ tasks' = {}
    /\ UNCHANGED << childpid, last_command_id, responses, event_set, call,
                    to_parent, handled, answers >>
    /\ UNCHANGED << forkVars, sigVars, regVars, evVars, wkVars >>

GwNext ==
    \/ \E c \in Callers, f \in Functions : Call(c, f)
    \/ \E c \in Callers : Resume(c)
    \/ \E c \in Callers : Waitpid(c)
    \/ MessageReceived
    \/ HandleCall
    \/ \E t \in tasks : TaskDone(t)
    \/ ChildExit
    \/ Cleanup
    \/ ChildTerminate

\* ---------------------------------------------------------------------
\* Gateway.on / Gateway.off: _forked.py lines 128-136
\* ---------------------------------------------------------------------
MaxSubs == 2

Events == {"e1", "e2"}
Callbacks == {"cb1", "cb2"}
EventArgs == {"a1", "a2"}

RECURSIVE RemoveFirst(_, _)
\* list.remove(x): the first occurrence goes (line 134).
RemoveFirst(s, x) ==
    IF s = << >> THEN << >>
    ELSE IF Head(s) = x THEN Tail(s)
    ELSE << Head(s) >> \o RemoveFirst(Tail(s), x)

InList(s, x) == \E i \in 1..Len(s) : s[i] = x

NoDispatch ==
    [pc |-> "idle", event |-> None, args |-> None, idx |-> 0,
     attached |-> FALSE]

RegInit ==
    /\ callbacks = << >>
    /\ reg_last = [op |-> None, event |-> None, callback |-> None,
                   outcome |-> None]
    /\ dispatch = NoDispatch
    /\ subscribed = << >>
    /\ invoked = << >>

\* on(event, callback), lines 128-131.
On(e, f) ==
    /\ e \in DOMAIN callbacks => Len(callbacks[e]) < MaxSubs
    /\ callbacks' =
           [k \in DOMAIN callbacks \cup {e} |->
               IF k = e
               THEN (IF e \in DOMAIN callbacks THEN callbacks[e] ELSE << >>)
                    \o << f >>
               ELSE callbacks[k]]
    /\ reg_last' = [op |-> "on", event |-> e, callback |-> f,
                    outcome |-> "ok"]
    /\ UNCHANGED << forkVars, child, gwVars, sigVars, wkVars >>

\* An off() that removes the callback and keeps the key.
Off_KeepKey(e, f) ==
    /\ IF e \in DOMAIN callbacks /\ InList(callbacks[e], f)
       THEN callbacks' = [callbacks EXCEPT ![e] = RemoveFirst(@, f)]
       ELSE callbacks' = callbacks
    /\ reg_last' = [op |-> "off", event |-> e, callback |-> f,
                    outcome |-> IF e \notin DOMAIN callbacks THEN "KeyError"
                                ELSE IF ~InList(callbacks[e], f)
                                THEN "ValueError" ELSE "ok"]
    /\ UNCHANGED << forkVars, child, gwVars, sigVars, wkVars >>

\* off(event, callback), lines 133-136.  A missing key raises KeyError and
\* a missing callback ValueError, both at line 134, before anything is
\* changed.
Off(e, f) ==
    /\ IF e \notin DOMAIN callbacks
       THEN /\ callbacks' = callbacks
            /\ reg_last' = [op |-> "off", event |-> e, callback |-> f,
                            outcome |-> "KeyError"]
       ELSE IF ~InList(callbacks[e], f)
       THEN /\ callbacks' = callbacks
            /\ reg_last' = [op |-> "off", event |-> e, callback |-> f,
                            outcome |-> "ValueError"]
       ELSE LET rest == RemoveFirst(callbacks[e], f)
            IN  /\ callbacks' =
                       IF rest = << >>
                       THEN [k \in DOMAIN callbacks \ {e} |-> callbacks[k]]
                       ELSE [callbacks EXCEPT ![e] = rest]
                /\ reg_last' = [op |-> "off", event |-> e, callback |-> f,
                                outcome |-> "ok"]
    /\ UNCHANGED << forkVars, child, gwVars, sigVars, wkVars >>

\* on() and off() called on the loop thread while no event is being
\* dispatched.
CallOn(e, f) ==
    /\ dispatch.pc # "iterating"
    /\ On(e, f)
    /\ UNCHANGED evVars

CallOff(e, f) ==
    /\ dispatch.pc # "iterating"
    /\ Off(e, f)
    /\ UNCHANGED evVars

\* _message_received, an event message (lines 143-147): an event nobody
\* subscribed to is dropped, for any other the loop over its list begins.
EventReceived(e, a) ==
    /\ dispatch.pc # "iterating"
    /\ dispatch' = [pc |-> IF e \in DOMAIN callbacks
                           THEN "iterating" ELSE "dropped",
                    event |-> e, args |-> a, idx |-> 1,
                    attached |-> e \in DOMAIN callbacks]
    /\ subscribed' = IF e \in DOMAIN callbacks THEN callbacks[e] ELSE << >>
    /\ invoked' = << >>
    /\ UNCHANGED << forkVars, child, gwVars, sigVars, regVars, wkVars >>

\* The list object the for statement of line 147 iterates: the event's
\* list as it is now, or the emptied list that off() took out of the
\* registry (line 136).
Iterated ==
    IF dispatch.attached /\ dispatch.event \in DOMAIN callbacks
    THEN callbacks[dispatch.event]
    ELSE << >>

\* What the body of a subscriber does to the registry: nothing, or a call
\* of on() or off().
Body(op, e, f) ==
    CASE op = "on" -> On(e, f)
      [] op = "off" -> Off(e, f)
      [] OTHER -> UNCHANGED << forkVars, child, gwVars, sigVars, regVars,
                               wkVars >>

\* One round of the loop (lines 147-150): the callback at the iterator's
\* index is invoked with the event's args, and the index moves on.
DispatchStep(op, e, f) ==
    /\ dispatch.pc = "iterating"
    /\ dispatch.idx <= Len(Iterated)
    /\ invoked' = Append(invoked, [callback |-> Iterated[dispatch.idx],
                                   args |-> dispatch.args])
    /\ Body(op, e, f)
    /\ dispatch' = [dispatch EXCEPT
                       !.idx = @ + 1,
                       !.attached = @ /\ dispatch.event \in DOMAIN callbacks']
    /\ subscribed' = subscribed

\* The iterator is past the end of the list: the loop is over.
DispatchEnd ==
    /\ dispatch.pc = "iterating"
    /\ dispatch.idx > Len(Iterated)
    /\ dispatch' = [dispatch EXCEPT !.pc = "done"]
    /\ UNCHANGED << subscribed, invoked >>
    /\ UNCHANGED << forkVars, child, gwVars, sigVars, regVars, wkVars >>

RegNext ==
    \/ \E e \in Events, f \in Callbacks : CallOn(e, f)
    \/ \E e \in Events, f \in Callbacks : CallOff(e, f)
    \/ \E e \in Events, a \in EventArgs : EventReceived(e, a)
    \/ \E op \in {"none", "on", "off"}, e \in Events, f \in Callbacks :
           DispatchStep(op, e, f)
    \/ DispatchEnd

\* ---------------------------------------------------------------------
\* AsyncioWorker: worker/asyncio.py
\* ---------------------------------------------------------------------
MaxTasks == 2

Ops == {"prepare", "start", "pause", "stop", "cleanup"}
Draining == {"stop", "cleanup"}
Bg == 1..MaxTasks

\* The tasks of the private loop: the background tasks the hooks and other
\* tasks create, and the task run_coroutine_threadsafe makes of each
\* lifecycle coroutine.
BgTask(i) == << "bg", i >>
HookTask(op) == << "hook", op >>
TaskIds == {BgTask(i) : i \in Bg} \cup {HookTask(op) : op \in Ops}

Handle(kind, x) == [kind |-> kind, x |-> x]

\* not t.done(), as line 170 asks of every task of the loop
PendingIn(t, ht, b) ==
    IF t[1] = "bg"
    THEN b[t[2]] \in {"new", "waiting", "woken"}
    ELSE ht[t[2]] = "pending"

\* A drain that sees no task.
PendingTasks_None(ht, b) == {}

\* lines 169-170: the tasks of the loop that are not done
PendingTasks(ht, b) == {t \in TaskIds : PendingIn(t, ht, b)}

FutureDone(op) == fut[op] \in {"ok", "exc"}

\* loop.is_running(): from run_forever()'s entry to its return
IsRunning == loop \in {"running", "stopping"}

\* The lifecycle order the control thread keeps.
Allowed(op) ==
    CASE op = "prepare" -> state = "NEW"
      [] op = "start" -> state \in {"PREPARED", "PAUSED"}
      [] op = "pause" -> state = "RUNNING"
      [] op = "stop" -> state \in {"RUNNING", "PAUSED"}
      [] OTHER -> state \notin {"NEW", "CLEANED_UP"}

After(op) ==
    CASE op = "prepare" -> "PREPARED"
      [] op = "start" -> "RUNNING"
      [] op = "pause" -> "PAUSED"
      [] op = "stop" -> "STOPPED"
      [] OTHER -> "CLEANED_UP"

WkInit ==
    /\ state = "NEW"
    /\ ctl = [op |-> None, pc |-> "idle"]
    /\ result = [op \in Ops |-> None]
    /\ loop = "none"
    /\ ready = << >>
    /\ ntodo = 0
    /\ fut = [op \in Ops |-> None]
    /\ cb = [op \in Ops |-> FALSE]
    /\ evt = [op \in Ops |-> FALSE]
    /\ htask = [op \in Ops |-> None]
    /\ hook = [op \in Ops |-> None]
    /\ bg = [i \in Bg |-> None]
    /\ watch = [t \in TaskIds |-> << >>]
    /\ snapshot = {}

\* A drain that is handed to the loop only when the hook succeeded.
CallbackReady_OnSuccess(op, rdy) ==
    IF op \in Draining /\ htask[op] = "ok"
    THEN Append(rdy, Handle("stop_loop", op))
    ELSE rdy

\* The future's done callback: lambda future: event.set() (lines 36, 45,
\* 54) or stop_loop (lines 62-63, 77-78), which hands __stop_loop to the
\* loop with call_soon_threadsafe.
CallbackReady(op, rdy) ==
    IF op \in Draining THEN Append(rdy, Handle("stop_loop", op)) ELSE rdy

CallbackEvt(op, ev) ==
    IF op \in Draining THEN ev ELSE [ev EXCEPT ![op] = TRUE]

\* ---- the control thread ----------------------------------------------

\* run_coroutine_threadsafe(self.__op(), self.loop): lines 35, 44, 53, 66,
\* 81-82.  self.loop is an attribute only once the loop thread has run
\* line 130.
Schedule(op) ==
    IF loop \in {"none", "starting"}
    THEN /\ ctl' = [op |-> None, pc |-> "idle"]
         /\ result' = [result EXCEPT ![op] = "AttributeError"]
         /\ state' = "FAILED"
         /\ UNCHANGED << ready, fut, cb, evt, htask, hook >>
    ELSE /\ ctl' = [op |-> op, pc |-> "scheduled"]
         /\ result' = [result EXCEPT ![op] = None]
         /\ state' = state
         /\ ready' = Append(ready, Handle("create", op))
         /\ fut' = [fut EXCEPT ![op] = "pending"]
         /\ cb' = [cb EXCEPT ![op] = FALSE]
         /\ evt' = [evt EXCEPT ![op] = FALSE]
         /\ htask' = [htask EXCEPT ![op] = None]
         /\ hook' = [hook EXCEPT ![op] = None]

\* prepare(), line 33: the loop thread is started.
PrepareThread ==
    /\ ctl.pc = "idle"
    /\ Allowed("prepare")
    /\ ctl' = [op |-> "prepare", pc |-> "thread_started"]
    /\ loop' = "starting"
    /\ UNCHANGED << state, result, ready, ntodo, fut, cb, evt, htask, hook,
                    bg, watch, snapshot >>
    /\ UNCHANGED << forkVars, child, gwVars, sigVars, regVars, evVars >>

\* prepare(), lines 34-35.
PrepareSchedule ==
    /\ ctl = [op |-> "prepare", pc |-> "thread_started"]
    /\ Schedule("prepare")
    /\ UNCHANGED << loop, ntodo, bg, watch, snapshot >>
    /\ UNCHANGED << forkVars, child, gwVars, sigVars, regVars, evVars >>

\* start(), pause(), stop(): lines 43-44, 52-53, 65-66.
CallOp(op) ==
    /\ ctl.pc = "idle"
    /\ Allowed(op)
    /\ Schedule(op)
    /\ UNCHANGED << loop, ntodo, bg, watch, snapshot >>
    /\ UNCHANGED << forkVars, child, gwVars, sigVars, regVars, evVars >>

\* cleanup(), lines 74-75: nothing to do unless the loop is running.
CleanupCheck ==
    /\ ctl.pc = "idle"
    /\ Allowed("cleanup")
    /\ IF loop \in {"none", "starting"}
       THEN /\ ctl' = ctl
            /\ result' = [result EXCEPT !["cleanup"] = "AttributeError"]
            /\ state' = After("cleanup")
       ELSE IF ~IsRunning
       THEN /\ ctl' = ctl
            /\ result' = [result EXCEPT !["cleanup"] = "returned"]
            /\ state' = After("cleanup")
       ELSE /\ ctl' = [op |-> "cleanup", pc |-> "checked"]
            /\ result' = [result EXCEPT !["cleanup"] = None]
            /\ state' = state
    /\ UNCHANGED << loop, ready, ntodo, fut, cb, evt, htask, hook, bg,
                    watch, snapshot >>
    /\ UNCHANGED << forkVars, child, gwVars, sigVars, regVars, evVars >>

\* cleanup(), lines 80-82.
CleanupSchedule ==
    /\ ctl = [op |-> "cleanup", pc |-> "checked"]
    /\ Schedule("cleanup")
    /\ UNCHANGED << loop, ntodo, bg, watch, snapshot >>
    /\ UNCHANGED << forkVars, child, gwVars, sigVars, regVars, evVars >>

\* future.add_done_callback(..): lines 36, 45, 54, 67, 83.  On a future
\* that is done already the callback runs at once, in this thread.
\* cleanup() goes on to event.wait(), the others to future.exception().
AddDoneCallback ==
    /\ ctl.pc = "scheduled"
    /\ LET op == ctl.op
       IN  /\ IF FutureDone(op)
              THEN /\ ready' = CallbackReady(op, ready)
                   /\ evt' = CallbackEvt(op, evt)
                   /\ cb' = cb
              ELSE /\ cb' = [cb EXCEPT ![op] = TRUE]
                   /\ UNCHANGED << ready, evt >>
           /\ ctl' = [op |-> op,
                      pc |-> IF op = "cleanup" THEN "wait" ELSE "exception"]
    /\ UNCHANGED << state, result, loop, ntodo, fut, htask, hook, bg,
                    watch, snapshot >>
    /\ UNCHANGED << forkVars, child, gwVars, sigVars, regVars, evVars >>

\* exception = future.exception(); if exception: raise exception (lines
\* 37-39, 46-48, 55-57, 68-70): blocks until the future is done.
Exception ==
    /\ ctl.pc = "exception"
    /\ FutureDone(ctl.op)
    /\ IF fut[ctl.op] = "exc"
       THEN /\ ctl' = [op |-> None, pc |-> "idle"]
            /\ result' = [result EXCEPT ![ctl.op] = "raised"]
            /\ state' = "FAILED"
       ELSE /\ ctl' = [ctl EXCEPT !.pc = "wait"]
            /\ UNCHANGED << result, state >>
    /\ UNCHANGED << loop, ready, ntodo, fut, cb, evt, htask, hook, bg,
                    watch, snapshot >>
    /\ UNCHANGED << forkVars, child, gwVars, sigVars, regVars, evVars >>

\* event.wait() (lines 40, 49, 58, 71, 84), and the call returns.
Wait ==
    /\ ctl.pc = "wait"
    /\ evt[ctl.op]
    /\ ctl' = [op |-> None, pc |-> "idle"]
    /\ result' = [result EXCEPT ![ctl.op] = "returned"]
    /\ state' = After(ctl.op)
    /\ UNCHANGED << loop, ready, ntodo, fut, cb, evt, htask, hook, bg,
                    watch, snapshot >>
    /\ UNCHANGED << forkVars, child, gwVars, sigVars, regVars, evVars >>

\* ---- the loop thread -------------------------------------------------

\* __start_loop, line 130: self.loop becomes a fresh loop.
LoopCreate ==
    /\ loop = "starting"
    /\ loop' = "created"
    /\ UNCHANGED << state, ctl, result, ready, ntodo, fut, cb, evt, htask,
                    hook, bg, watch, snapshot >>
    /\ UNCHANGED << forkVars, child, gwVars, sigVars, regVars, evVars >>

\* __start_loop, line 131: run_forever() is entered.
LoopRunForever ==
    /\ loop = "created"
    /\ loop' = "running"
    /\ UNCHANGED << state, ctl, result, ready, ntodo, fut, cb, evt, htask,
                    hook, bg, watch, snapshot >>
    /\ UNCHANGED << forkVars, child, gwVars, sigVars, regVars, evVars >>

\* One iteration of run_forever() (line 131) runs the handles that are
\* ready when it begins; handles added meanwhile wait for the next one.
LoopIterate ==
    /\ loop = "running"
    /\ ntodo = 0
    /\ ready # << >>
    /\ ntodo' = Len(ready)
    /\ UNCHANGED << state, ctl, result, loop, ready, fut, cb, evt, htask,
                    hook, bg, watch, snapshot >>
    /\ UNCHANGED << forkVars, child, gwVars, sigVars, regVars, evVars >>

\* run_forever() returns after the iteration in which loop.stop() was
\* called (line 131; the thread ends).
LoopExit ==
    /\ loop = "stopping"
    /\ ntodo = 0
    /\ loop' = "exited"
    /\ UNCHANGED << state, ctl, result, ready, ntodo, fut, cb, evt, htask,
                    hook, bg, watch, snapshot >>
    /\ UNCHANGED << forkVars, child, gwVars, sigVars, regVars, evVars >>

\* What a background task waited for has happened: its next step is
\* queued.
Wake(i) ==
    /\ loop = "running"
    /\ ntodo = 0
    /\ bg[i] = "waiting"
    /\ bg' = [bg EXCEPT ![i] = "woken"]
    /\ ready' = Append(ready, Handle("step", i))
    /\ UNCHANGED << state, ctl, result, loop, ntodo, fut, cb, evt, htask,
                    hook, watch, snapshot >>
    /\ UNCHANGED << forkVars, child, gwVars, sigVars, regVars, evVars >>

\* The same for the coroutine a hook returned (lines 137, 143, 149, 155,
\* 161: yield from result).
HookWake(op) ==
    /\ loop = "running"
    /\ ntodo = 0
    /\ hook[op] = "suspended"
    /\ htask[op] = "pending"
    /\ hook' = [hook EXCEPT ![op] = "woken"]
    /\ ready' = Append(ready, Handle("resume", op))
    /\ UNCHANGED << state, ctl, result, loop, ntodo, fut, cb, evt, htask,
                    bg, watch, snapshot >>
    /\ UNCHANGED << forkVars, child, gwVars, sigVars, regVars, evVars >>

\* The callbacks a finished task schedules: the stop closures attached to
\* it at line 173.
Watchers(t) == [n \in 1..Len(watch[t]) |-> Handle("stop", watch[t][n])]

\* A task the loop has not created yet, if any is left within the bound.
FreeTasks == {i \in Bg : bg[i] = None}
NextTask == CHOOSE i \in FreeTasks : \A j \in FreeTasks : i <= j

\* loop.create_task(..) by a hook or a task: the new task's first step is
\* queued.
Spawn(sp, b) == IF sp THEN [b EXCEPT ![NextTask] = "new"] ELSE b
SpawnReady(sp) == IF sp THEN << Handle("step", NextTask) >> ELSE << >>

\* A wrapper that does not await the coroutine the hook returned.
WrapperOutcome_NoAwait(out) == IF out = "coroutine" THEN "ok" ELSE out

\* The lifecycle coroutine around a hook (lines 133-161): what the hook
\* returned is its outcome, and a coroutine is awaited inline.
WrapperOutcome(out) == out

\* The handle run_coroutine_threadsafe queued: the coroutine becomes a
\* task of the loop.
RunCreate ==
    /\ ntodo > 0
    /\ Head(ready).kind = "create"
    /\ LET op == Head(ready).x
       IN  /\ htask' = [htask EXCEPT ![op] = "pending"]
           /\ ready' = Append(Tail(ready), Handle("hook", op))
    /\ ntodo' = ntodo - 1
    /\ UNCHANGED << state, ctl, result, loop, fut, cb, evt, hook, bg,
                    watch, snapshot >>
    /\ UNCHANGED << forkVars, child, gwVars, sigVars, regVars, evVars >>

\* The task's end: its result is set and its done callbacks are queued,
\* first the one that completes the caller's future.
Finish(op, r, rdy, b) ==
    /\ htask' = [htask EXCEPT ![op] = r]
    /\ ready' = rdy \o << Handle("set_future", op) >>
                    \o Watchers(HookTask(op))
    /\ watch' = [watch EXCEPT ![HookTask(op)] = << >>]
    /\ snapshot' = IF op = "stop"
                   THEN {t \in TaskIds :
                            PendingIn(t, [htask EXCEPT ![op] = r], b)}
                   ELSE snapshot

\* The coroutine's first step: the hook is called (lines 135, 141, 147,
\* 153, 159).  It returns, raises, or returns a coroutine; it may have
\* created a task.
RunHook(out, sp) ==
    /\ ntodo > 0
    /\ Head(ready).kind = "hook"
    /\ sp => FreeTasks # {}
    /\ LET op == Head(ready).x
           w == WrapperOutcome(out)
           rdy == Tail(ready) \o SpawnReady(sp)
       IN  /\ hook' = [hook EXCEPT ![op] =
                          IF out = "coroutine" THEN "suspended" ELSE out]
           /\ bg' = Spawn(sp, bg)
           /\ IF w = "coroutine"
              THEN /\ ready' = rdy
                   /\ UNCHANGED << htask, watch, snapshot >>
              ELSE Finish(op, w, rdy, Spawn(sp, bg))
    /\ ntodo' = ntodo - 1
    /\ UNCHANGED << state, ctl, result, loop, fut, cb, evt >>
    /\ UNCHANGED << forkVars, child, gwVars, sigVars, regVars, evVars >>

\* The awaited coroutine ends: with a value or an exception, possibly
\* having created a task.
RunResume(out, sp) ==
    /\ ntodo > 0
    /\ Head(ready).kind = "resume"
    /\ sp => FreeTasks # {}
    /\ LET op == Head(ready).x
       IN  /\ hook' = [hook EXCEPT ![op] = out]
           /\ bg' = Spawn(sp, bg)
           /\ Finish(op, out, Tail(ready) \o SpawnReady(sp), Spawn(sp, bg))
    /\ ntodo' = ntodo - 1
    /\ UNCHANGED << state, ctl, result, loop, fut, cb, evt >>
    /\ UNCHANGED << forkVars, child, gwVars, sigVars, regVars, evVars >>

\* The task's done callback completes the caller's future, which runs the
\* future's own done callback if one is registered.
RunSetFuture ==
    /\ ntodo > 0
    /\ Head(ready).kind = "set_future"
    /\ LET op == Head(ready).x
       IN  /\ fut' = [fut EXCEPT ![op] = htask[op]]
           /\ IF cb[op]
              THEN /\ ready' = CallbackReady(op, Tail(ready))
                   /\ evt' = CallbackEvt(op, evt)
              ELSE /\ ready' = Tail(ready)
                   /\ evt' = evt
    /\ ntodo' = ntodo - 1
    /\ UNCHANGED << state, ctl, result, loop, cb, htask, hook, bg, watch,
                    snapshot >>
    /\ UNCHANGED << forkVars, child, gwVars, sigVars, regVars, evVars >>

\* __stop_loop (lines 163-178) and its closure stop (lines 168-176) as a
\* task's done callback: with a task pending the closure attaches itself
\* to one of them, with none it stops the loop and sets the event.
RunStopLoop ==
    /\ ntodo > 0
    /\ Head(ready).kind \in {"stop_loop", "stop"}
    /\ LET op == Head(ready).x
           pending == PendingTasks(htask, bg)
       IN  IF Head(ready).kind = "stop_loop" /\ ~IsRunning
           THEN /\ evt' = [evt EXCEPT ![op] = TRUE]
                /\ UNCHANGED << loop, watch >>
           ELSE IF pending # {}
           THEN /\ \E t \in pending :
                       watch' = [watch EXCEPT ![t] = Append(@, op)]
                /\ UNCHANGED << loop, evt >>
           ELSE /\ loop' = "stopping"
                /\ evt' = [evt EXCEPT ![op] = TRUE]
                /\ watch' = watch
    /\ ready' = Tail(ready)
    /\ ntodo' = ntodo - 1
    /\ UNCHANGED << state, ctl, result, fut, cb, htask, hook, bg, snapshot >>
    /\ UNCHANGED << forkVars, child, gwVars, sigVars, regVars, evVars >>

\* A step of a background task: it ends, or (on its first step) it waits
\* for something.  A task that ends may have created another.
RunStep(fin, sp) ==
    /\ ntodo > 0
    /\ Head(ready).kind = "step"
    /\ LET i == Head(ready).x
       IN  /\ fin \/ bg[i] = "new"
           /\ sp => fin /\ FreeTasks # {}
           /\ IF fin
              THEN /\ bg' = Spawn(sp, [bg EXCEPT ![i] = "done"])
                   /\ ready' = Tail(ready) \o SpawnReady(sp)
                                   \o Watchers(BgTask(i))
                   /\ watch' = [watch EXCEPT ![BgTask(i)] = << >>]
              ELSE /\ bg' = [bg EXCEPT ![i] = "waiting"]
                   /\ ready' = Tail(ready)
                   /\ watch' = watch
    /\ ntodo' = ntodo - 1
    /\ UNCHANGED << state, ctl, result, loop, fut, cb, evt, htask, hook,
                    snapshot >>
    /\ UNCHANGED << forkVars, child, gwVars, sigVars, regVars, evVars >>

ControlStep ==
    \/ PrepareSchedule
    \/ CleanupSchedule
    \/ AddDoneCallback
    \/ Exception
    \/ Wait

LoopStep ==
    \/ LoopCreate
    \/ LoopRunForever
    \/ LoopIterate
    \/ LoopExit
    \/ \E i \in Bg : Wake(i)
    \/ \E op \in Ops : HookWake(op)
    \/ RunCreate
    \/ \E out \in {"ok", "exc", "coroutine"}, sp \in BOOLEAN : RunHook(out, sp)
    \/ \E out \in {"ok", "exc"}, sp \in BOOLEAN : RunResume(out, sp)
    \/ RunSetFuture
    \/ RunStopLoop
    \/ \E fin \in BOOLEAN, sp \in BOOLEAN : RunStep(fin, sp)

WkNext ==
    \/ PrepareThread
    \/ \E op \in {"start", "pause", "stop"} : CallOp(op)
    \/ CleanupCheck
    \/ ControlStep
    \/ LoopStep

\* ---------------------------------------------------------------------
\* Specifications
\* ---------------------------------------------------------------------
LaunchSpecInit == LaunchInit /\ GatewayNew /\ RegInit /\ WkInit

LaunchSpec == LaunchSpecInit /\ [][LaunchNext]_vars

\* Every machine starts beside the others at rest.
Init == GwInit /\ RegInit /\ WkInit

GwSpec == Init /\ [][GwNext]_vars

\* The parent's loop runs every ready waiter and reads every message, the
\* child's loop reads every command and finishes every task, and the
\* child's process goes on to exit.  New calls are the callers' choice.
GwFairSpec ==
    /\ GwSpec
    /\ \A c \in Callers : WF_vars(Resume(c)) /\ WF_vars(Waitpid(c))
    /\ WF_vars(MessageReceived)
    /\ WF_vars(HandleCall)
    /\ WF_vars(\E t \in tasks : TaskDone(t))
    /\ WF_vars(ChildExit)
    /\ WF_vars(ChildTerminate)

RegSpec == Init /\ [][RegNext]_vars

WkSpec == Init /\ [][WkNext]_vars

\* Both threads keep running: the loop thread runs its loop, every task
\* and awaited coroutine goes on, and the control thread goes on inside a
\* call.  Which call comes next is the control thread's choice.
WkFairSpec ==
    /\ WkSpec
    /\ WF_vars(ControlStep)
    /\ WF_vars(LoopStep)

\* ---------------------------------------------------------------------
\* Properties
\* ---------------------------------------------------------------------

\* What the child answers a command of function f and argument a with,
\* as the caller sees it.
Expected(f, a) ==
    LET r == Invoke(f, a)
        e == IF r.kind = "coroutine" THEN Await(f, a) ELSE r
    IN  IF e.kind = "value" THEN Returned(e.value) ELSE Raised(e.value)

Outcome(r) ==
    IF r.success THEN Returned(r.payload) ELSE Raised(r.payload[2])

BrokenPipe == Raised(<< "BrokenPipeError", 0 >>)

\* A call that completed on a response (not a kill(), which goes on to
\* wait for the process, and not a call whose send failed).
CompletedOnResponse(c) ==
    /\ call[c].pc = "done"
    /\ call[c].function # "kill"
    /\ call[c].result # BrokenPipe

\* C1: a call completes only with the (success, payload) pair of the
\* response whose id is its own command id, which is the child's answer to
\* its own command, whatever the order the responses arrive in.
CorrelationSafety ==
    \A c \in Callers :
        CompletedOnResponse(c) =>
            /\ call[c].id \in DOMAIN responses
            /\ call[c].result = Outcome(responses[call[c].id])
            /\ call[c].result = Expected(call[c].function, Arg(c))

\* Two calls completed, the later one's response having arrived while the
\* earlier one's coroutine was still pending.
CorrelationWitness ==
    \E c, d \in Callers :
        /\ CompletedOnResponse(c) /\ CompletedOnResponse(d)
        /\ call[c].id < call[d].id
        /\ call[c].function = "slow" /\ call[d].function = "ping"
        /\ call[c].result = Returned(<< "int", Arg(c) >>)
        /\ call[d].result = Returned(<< "int", Arg(d) >>)

InWaitLoop(c) == call[c].pc \in {"waiting", "woken"}

\* C2: once the response for a call's id is stored, the call leaves its
\* wait/clear/recheck loop, under every interleaving of arrivals, wakeups,
\* clears and new calls.
NoLostWakeup ==
    \A c \in Callers :
        (InWaitLoop(c) /\ call[c].id \in DOMAIN responses)
            ~> ~InWaitLoop(c)

\* A call whose response is stored while another waiter has already
\* cleared the signal and waits again.
NoLostWakeupWitness ==
    \E c, d \in Callers :
        /\ c # d
        /\ call[c].pc = "woken"
        /\ call[c].id \in DOMAIN responses
        /\ ~event_set
        /\ call[d].pc = "waiting"
        /\ call[d].id \notin DOMAIN responses

StillPending(t) == PendingIn(t, htask, bg)

\* C3: stop() returns only when every task that was pending when the
\* _stop hook finished is done, and loop.stop() is called only in a state
\* with no task of the loop pending.
DrainBeforeStop ==
    /\ [](result["stop"] = "returned" =>
              \A t \in snapshot : ~StillPending(t))
    /\ [][(loop # "stopping" /\ loop' = "stopping") =>
              /\ \A t \in TaskIds : ~StillPending(t)
              /\ \A t \in TaskIds : ~PendingIn(t, htask', bg')]_vars

\* stop() returned after a drain that had tasks to wait for, one of them
\* a background task.
DrainWitness ==
    /\ result["stop"] = "returned"
    /\ \E i \in Bg : BgTask(i) \in snapshot
    /\ loop \in {"stopping", "exited"}

KillSent(c) ==
    /\ call[c].function = "kill"
    /\ call[c].pc = "waiting"
    /\ child = "running"
    /\ \E n \in 1..Len(to_child) : to_child[n].id = call[c].id

\* C4: a kill() invoked while the child runs its loop returns (unless a
\* forceful cleanup() cuts in); when it has returned the child has exited
\* and the handle is cleared, and the handle is never cleared before the
\* process has exited.
KillCompletes ==
    /\ [](\A c \in Callers :
              call[c].function = "kill" /\ call[c].pc = "done" =>
                  child = "exited" /\ childpid = None)
    /\ [](childpid = None => child = "exited")
    /\ \A c \in Callers :
           (KillSent(c) /\ cleanups = 0)
               ~> (call[c].pc = "done" \/ cleanups > 0)

SyncRaising == {"boom", "missing"}

\* C5: a command whose method raises synchronously is answered by exactly
\* one response, a failure bearing the command's id and the exception, and
\* the caller's proxy call raises that exception.
FailurePropagation ==
    \A c \in Callers :
        (call[c].function \in SyncRaising /\ call[c].id \in handled) =>
            LET k == call[c].id
                exc == Invoke(call[c].function, Arg(c)).value
            IN  /\ k \in DOMAIN answers /\ answers[k] = 1
                /\ \A n \in 1..Len(to_parent) :
                       to_parent[n].id = k =>
                           /\ ~to_parent[n].success
                           /\ to_parent[n].payload[2] = exc
                /\ k \in DOMAIN responses =>
                       /\ ~responses[k].success
                       /\ responses[k].payload[2] = exc
                /\ call[c].pc = "done" => call[c].result = Raised(exc)

\* A proxy call whose method raised has raised in the parent.
FailureWitness ==
    \E c \in Callers :
        /\ call[c].function = "boom"
        /\ call[c].pc = "done"
        /\ call[c].result = Raised(<< "ValueError", Arg(c) >>)

\* C6: whichever of the five hooks raises, directly or from the coroutine
\* it returned, the lifecycle call re-raises the exception.
HookFailureReraised ==
    \A op \in Ops :
        (result[op] # None /\ hook[op] = "exc") => result[op] = "raised"

\* C7: prepare(), start() and pause() return only after the hook, with any
\* coroutine it returned, has finished on the loop thread (and raise the
\* hook's exception only after it has); the loop thread can always go on
\* with the handles it has, wherever the control thread is.
ReturnsAfterHook ==
    /\ \A op \in {"prepare", "start", "pause"} :
           /\ result[op] = "returned" => hook[op] = "ok"
           /\ result[op] = "raised" => hook[op] = "exc"
    /\ (ntodo > 0 \/ (loop = "running" /\ ready # << >>)) => ENABLED LoopStep

\* prepare(), start() and pause() have returned, then start() again.
ReturnsWitness ==
    /\ result["prepare"] = "returned"
    /\ result["start"] = "returned"
    /\ result["pause"] = "returned"
    /\ hook["start"] = "ok"
    /\ state = "RUNNING"

\* C8: fork() never does a raw process fork in a process with more than
\* one thread: it raises, or creates the child by a spawn-style strategy.
NoRawForkWithThreads == ~(launch = "forked" /\ active_count > 1)

InCleanup == ctl.op = "cleanup" /\ ctl.pc \in {"checked", "scheduled", "wait"}

\* C9: cleanup() returns, called right after stop() has returned to the
\* control thread and called at any other point after prepare().
CleanupCompletes ==
    /\ (InCleanup /\ result["stop"] = "returned") ~> ~InCleanup
    /\ (InCleanup /\ result["stop"] # "returned") ~> ~InCleanup

\* C10: no event of the registry maps to an empty list, and an off() that
\* removes an event's only callback removes the event.
RegistryHygiene ==
    /\ [](\A e \in DOMAIN callbacks : callbacks[e] # << >>)
    /\ [][\A e \in DOMAIN callbacks :
              (/\ Len(callbacks[e]) = 1
               /\ callbacks' # callbacks
               /\ reg_last' = [op |-> "off", event |-> e,
                               callback |-> callbacks[e][1],
                               outcome |-> "ok"])
                  => e \notin DOMAIN callbacks']_vars

\* on(e, cb) then off(e, cb) of the only callback: e is no key, while
\* another event keeps its subscribers.
RegistryWitness ==
    /\ reg_last.op = "off"
    /\ reg_last.outcome = "ok"
    /\ reg_last.event \notin DOMAIN callbacks
    /\ DOMAIN callbacks # {}

\* C11: a kill() called once a kill() has completed and cleared the child
\* handle does nothing: no command is sent, no command id is consumed, no
\* process is waited for, the Gateway's state stays as it is and the call
\* returns.
KillIdempotent ==
    [][\A c \in Callers :
           (/\ childpid = None
            /\ call[c].pc = "idle"
            /\ call'[c].pc # "idle"
            /\ call'[c].function = "kill")
               => /\ to_child' = to_child
                  /\ last_command_id' = last_command_id
                  /\ call'[c].id = 0
                  /\ call'[c].pc = "done"
                  /\ call'[c].result = Returned(NoneValue)
                  /\ << childpid, responses, event_set, to_parent >>' =
                         << childpid, responses, event_set, to_parent >>
                  /\ sigVars' = sigVars
                  /\ \A d \in Callers \ {c} : call'[d] = call[d]]_vars

\* A kill() has reaped the child and a second kill(), called afterwards,
\* has returned without a command id.
KillIdempotentWitness ==
    \E c, d \in Callers :
        /\ call[c].function = "kill" /\ call[c].pc = "done" /\ call[c].id = 1
        /\ call[d].function = "kill" /\ call[d].pc = "done" /\ call[d].id = 0
        /\ childpid = None
        /\ last_command_id = 1

\* C12: cleanup() stops watching the pipe and sends SIGTERM exactly when
\* the child handle is set; it waits for nothing (the child is where it
\* was, whatever it was doing), leaves the handle as it is, and after a
\* completed kill() it signals nobody.
ForcefulCleanup ==
    [][cleanups' # cleanups =>
           /\ ~reader'
           /\ signals' = (IF childpid # None THEN signals + 1 ELSE signals)
           /\ childpid' = childpid
           /\ child' = child
           /\ call' = call]_vars

\* A cleanup() signalled the running child, a kill() then reaped it and
\* cleared the handle, and a second cleanup() sent nothing.
ForcefulCleanupWitness ==
    /\ cleanups = 2
    /\ signals = 1
    /\ childpid = None
    /\ handled = {}
    /\ \E c \in Callers : call[c].function = "kill" /\ call[c].pc = "done"

Issued == {c \in Callers : call[c].id > 0}

\* C13: the ids of the commands are 1, 2, 3, .. in the order the commands
\* are issued: no two commands carry the same id, the commands in the pipe
\* are in increasing id order, and last_command_id is the number of ids
\* issued.
CommandIds ==
    /\ last_command_id = Cardinality(Issued)
    /\ {call[c].id : c \in Issued} = 1..last_command_id
    /\ \A c, d \in Issued : c # d => call[c].id # call[d].id
    /\ \A m, n \in 1..Len(to_child) :
           m < n => to_child[m].id < to_child[n].id
    /\ \A n \in 1..Len(to_child) : to_child[n].id \in 1..last_command_id
    /\ handled \subseteq 1..last_command_id

\* Every caller's command is in the pipe, none read yet.
CommandIdsWitness ==
    /\ Len(to_child) = NCallers
    /\ last_command_id = NCallers
    /\ \A n \in 1..Len(to_child) : to_child[n].id = n

Async == {"slow", "slowboom"}

\* C14: a command whose method returned a coroutine is not answered while
\* the coroutine is pending; the response sent when it completes bears
\* the command's id and the coroutine's result or exception, whatever was
\* read and answered in between, and the caller of that id gets it.
AsyncCorrelated ==
    /\ \A t \in tasks : t.id \notin DOMAIN answers
    /\ \A n \in 1..Len(to_parent) : to_parent[n].id \in handled
    /\ \A c \in Callers :
           (call[c].function \in Async /\ call[c].id > 0) =>
               LET k == call[c].id
                   e == Expected(call[c].function, Arg(c))
               IN  /\ k \in DOMAIN answers => answers[k] = 1
                   /\ \A n \in 1..Len(to_parent) :
                          to_parent[n].id = k => Outcome(to_parent[n]) = e
                   /\ k \in DOMAIN responses => Outcome(responses[k]) = e
                   /\ (call[c].pc = "done" /\ call[c].result # BrokenPipe)
                          => call[c].result = e

\* The response to a later command and then the failure of an earlier
\* command's coroutine are on their way to the parent, in that order.
AsyncCorrelatedWitness ==
    /\ Len(to_parent) = 2
    /\ to_parent[1].id = 2 /\ to_parent[1].success
    /\ to_parent[2].id = 1 /\ ~to_parent[2].success
    /\ \E c \in Callers : call[c].id = 1 /\ call[c].function = "slowboom"

\* C15: when the dispatch of an event is over, every callback that was
\* subscribed to it when it was received has been invoked once with the
\* event's args, in subscription order, whatever the subscribers did to
\* the registry meanwhile; an event without subscribers invokes nothing.
EventDispatch ==
    /\ dispatch.pc = "done" =>
           /\ Len(invoked) >= Len(subscribed)
           /\ \A n \in 1..Len(subscribed) :
                  invoked[n] = [callback |-> subscribed[n],
                                args |-> dispatch.args]
    /\ dispatch.pc = "dropped" => invoked = << >>

\* C16: the mapping holds only responses that their caller has not yet
\* consumed: a call that has left its wait loop has taken its entry out,
\* and when no call is outstanding the mapping is empty.
ResponsesDrained ==
    /\ \A c \in Callers :
           ~InWaitLoop(c) => call[c].id \notin DOMAIN responses
    /\ (\A c \in Callers : ~InWaitLoop(c)) /\ to_parent = << >>
           => responses = << >>

\* A call whose send raised: it has an id and is out of the wait loop
\* with no response under that id.
SendBroke(c) ==
    /\ call[c].id > 0
    /\ ~InWaitLoop(c)
    /\ call[c].id \notin DOMAIN responses

\* C17: a broken pipe on send is swallowed in kill() only, which goes on
\* to wait for the process and clear the handle; for any other command it
\* is raised to the caller, who does not wait for a response; the command
\* is not sent again.
BrokenPipeHandling ==
    /\ [](\A c \in Callers :
              /\ call[c].result = BrokenPipe => call[c].function # "kill"
              /\ SendBroke(c) =>
                     /\ call[c].id \notin handled
                     /\ \A n \in 1..Len(to_child) :
                            to_child[n].id # call[c].id
                     /\ IF call[c].function = "kill"
                        THEN \/ call[c].pc = "waitpid"
                             \/ /\ call[c].pc = "done"
                                /\ call[c].result = Returned(NoneValue)
                                /\ childpid = None
                                /\ child = "exited"
                        ELSE /\ call[c].pc = "done"
                             /\ call[c].result = BrokenPipe)
    /\ \A c \in Callers :
           (SendBroke(c) /\ call[c].function = "kill")
               ~> (call[c].pc = "done" /\ childpid = None)

\* With the child gone and not yet reaped, a proxy call has raised
\* BrokenPipeError and a kill(), its send broken too, has reaped the child.
BrokenPipeWitness ==
    \E c, d \in Callers :
        /\ call[c].function = "kill" /\ SendBroke(c)
        /\ call[c].pc = "done" /\ childpid = None
        /\ call[d].function = "ping" /\ call[d].result = BrokenPipe

\* C18: whichever of the two threads runs first after prepare() started
\* the loop thread, the _prepare hook is scheduled on the loop that thread
\* constructed and prepare() does not fail for want of the loop.
PrepareRaceFree ==
    /\ result["prepare"] # "AttributeError"
    /\ (ctl.op = "prepare" /\ ctl.pc \in {"scheduled", "exception", "wait"})
           => loop \notin {"none", "starting"}

\* C19: no command the dispatcher read is answered twice, and once the
\* child has left its loop by 'kill' (no signal was sent) every command it
\* read has been answered once under its id.
OneResponsePerCommand ==
    /\ \A k \in DOMAIN answers : k \in handled /\ answers[k] = 1
    /\ (child = "exited" /\ signals = 0) =>
           \A k \in handled : k \in DOMAIN answers

\* The drain stop() asked for is on its way: __stop_loop or its closure is
\* queued or attached to a task, or the loop has been stopped.
DrainUnderWay ==
    \/ \E n \in 1..Len(ready) :
           ready[n].kind \in {"stop_loop", "stop"} /\ ready[n].x = "stop"
    \/ \E t \in TaskIds : InList(watch[t], "stop")
    \/ loop \in {"stopping", "exited"}

\* C20: when the _stop hook raises, stop() raises its exception, and the
\* drain goes on all the same: the loop is stopped, with no task pending,
\* and its thread ends.
ShutdownOnStopFailure ==
    /\ []((hook["stop"] = "exc" /\ result["stop"] # None)
              => result["stop"] = "raised")
    /\ [](result["stop"] = "raised" => DrainUnderWay)
    /\ [](result["stop"] = "raised" /\ loop \in {"stopping", "exited"}
              => \A t \in snapshot : ~StillPending(t))
    /\ (result["stop"] = "raised") ~> (loop = "exited")

\* stop() raised while a background task was pending; the task has
\* finished since and the loop thread has ended.
ShutdownWitness ==
    /\ result["stop"] = "raised"
    /\ hook["stop"] = "exc"
    /\ \E i \in Bg : BgTask(i) \in snapshot /\ bg[i] = "done"
    /\ loop = "exited"

====
